---------------------------- MODULE Spec2Model ----------------------------
(***************************************************************************)
(* Model of the Clerk migration driver: src/index.ts (users) and           *)
(* src/index-org.ts (organizations).  The two programs share the driver;   *)
(* the variable entity says which of the two is running.                   *)
(*                                                                         *)
(* Steps are taken at the awaits of the code (the throttle delay, the      *)
(* lookup and creation calls of the gateway, the rate-limit cooldown);     *)
(* everything the code does synchronously between two awaits is one step.  *)
(* The spinner text is cosmetic and is not modelled.                       *)
(***************************************************************************)
EXTENDS Integers, Sequences, FiniteSets

(***************************************************************************)
(* Bounds of the model.                                                    *)
(***************************************************************************)
\* longest input array read from the file
MaxLen == 2
\* most 429 responses the gateway gives to one record
MaxRateLimited == 2
\* the system's clock stops here, ms
MaxClock == 2000
\* most entries one run appends to its log file
MaxAppends == 2

(***************************************************************************)
(* Values.                                                                 *)
(***************************************************************************)
Entities == {"user", "org"}

\* the elements a JSON array can hold, by what the schemas look at
Null     == [shape |-> "null",   hasOid |-> FALSE, email |-> "none"]
Good     == [shape |-> "object", hasOid |-> TRUE,  email |-> "address"]
BadEmail == [shape |-> "object", hasOid |-> TRUE,  email |-> "text"]
NoId     == [shape |-> "object", hasOid |-> FALSE, email |-> "address"]
RawRecords == {Null, Good, BadEmail, NoId}

RECURSIVE SeqsUpTo(_, _)
SeqsUpTo(S, n) ==
    IF n = 0 THEN {<<>>}
    ELSE LET shorter == SeqsUpTo(S, n - 1)
         IN  shorter \cup {Append(s, x) : s \in {t \in shorter : Len(t) = n - 1}, x \in S}

\* process.env, as far as the program reads it
SecretKeys   == {"unset", "sk_test_x", "sk_live_x"}
ImportToDev  == {"false", "true"}
Delays       == {0, 1000}
RetryDelays  == {10000}
Offsets      == (0 - 1) .. (MaxLen + 1)

\* error.status of what the try block can throw
NoStatus == "undefined"
ZodError == [name |-> "ZodError", status |-> NoStatus]
GatewayErrors ==
    {[name |-> "ClerkAPIResponseError", status |-> s] : s \in {"422", "429", "500"}}
    \cup {[name |-> "FetchError", status |-> NoStatus]}
TypeError == [name |-> "TypeError", status |-> NoStatus]
None == [name |-> "none", status |-> NoStatus]

\* what the gateway's calls resolve to when they do not throw
Created == [name |-> "created", status |-> NoStatus]
Found   == [name |-> "found", status |-> NoStatus]
Empty   == [name |-> "empty", status |-> NoStatus]

VARIABLES
    entity,         \* which program runs: index.ts or index-org.ts
    SECRET_KEY, IMPORT_TO_DEV, DELAY, RETRY_DELAY, OFFSET,
    file,           \* the parsed input file: a sequence of raw records
    offsetUsers,    \* file.slice(OFFSET)
    it,             \* position of the for-of iterator in offsetUsers
    i,              \* the loop's counter i
    pc,             \* where the program is
    migrated, alreadyExists,
    log,            \* the entries appended to the failure log, in order
    createdBy,      \* organization path: result of the last lookup
    elapsed,        \* time spent in the two timers, ms
    reported,       \* the summary printed by main().then, or <<>>
    uncaught,       \* the error that ended the run, or None
    response,       \* what the last creation call resolved to, or None
    lookedUp,       \* what the pending lookup call resolved to, or None
    \* history of the run, per index of the input file
    throttles, validations, lookups, creates, rateLimited, cooldowns

\* runs of the program on one machine, and what they share: the clock that
\* names their log file, and the files
VARIABLES
    clock,          \* the system's time, ms
    now,            \* per run: the constant now, the time the run started at
    alive,          \* per run: "idle", "running" or "exited"
    disk            \* per log file name: the run of each entry, in order

Runs == {1, 2}
runs == <<clock, now, alive, disk>>

config == <<entity, SECRET_KEY, IMPORT_TO_DEV, DELAY, RETRY_DELAY, OFFSET, file>>
env  == <<config, runs>>
hist == <<throttles, validations, lookups, creates, rateLimited, cooldowns>>
vars == <<entity, SECRET_KEY, IMPORT_TO_DEV, DELAY, RETRY_DELAY, OFFSET, file,
          offsetUsers, it, i, pc, migrated, alreadyExists, log, createdBy,
          elapsed, reported, uncaught, response, lookedUp,
          throttles, validations, lookups, creates, rateLimited, cooldowns,
          clock, now, alive, disk>>

Indices == 1 .. MaxLen
Zero == [k \in Indices |-> 0]
Inc(f, k) == [f EXCEPT ![k] = @ + 1]

(***************************************************************************)
(* Pure functions of the code.                                             *)
(***************************************************************************)
Min(a, b) == IF a < b THEN a ELSE b
Max(a, b) == IF a > b THEN a ELSE b

\* slip: the offset is taken one too far
SliceStart_OffByOne(n, k) == IF k < 0 THEN Max(n + k, 0) ELSE Min(k + 1, n)

\* Array.prototype.slice(start): the index (0-based) the copy starts at
SliceStart(n, k) == IF k < 0 THEN Max(n + k, 0) ELSE Min(k, n)
slice(arr, k) == SubSeq(arr, SliceStart(Len(arr), k) + 1, Len(arr))

\* userSchema.safeParse(r).success / organizationSchema.safeParse(r).success
userSchema(r) == r.shape = "object" /\ r.hasOid /\ r.email = "address"
organizationSchema(r) == r.shape = "object" /\ r.hasOid /\ r.email \in {"address", "text"}
safeParse(e, r) == IF e = "user" THEN userSchema(r) ELSE organizationSchema(r)

\* slip: only the presence of the key is checked
ConfigThrows_KeyOnly(key, dev) == key = "unset"

\* the startup checks: TRUE when the module throws
ConfigThrows(key, dev) ==
    \/ key = "unset"
    \/ key # "sk_live_x" /\ dev = "false"

\* new Date().toISOString().split(".")[0]: the time without its milliseconds
Truncate(ms) == ms - (ms % 1000)
\* the names a log file can have
FileNames == {Truncate(t) : t \in 0 .. MaxClock}

\* no run has started
RunsInit ==
    /\ clock = 0
    /\ now = [r \in Runs |-> 0]
    /\ alive = [r \in Runs |-> "idle"]
    /\ disk = [n \in FileNames |-> <<>>]

\* index in file (1-based) of the record the loop is at
cur == (Len(file) - Len(offsetUsers)) + it
userData == offsetUsers[it]

Init ==
    /\ entity \in Entities
    /\ SECRET_KEY \in SecretKeys
    /\ IMPORT_TO_DEV \in ImportToDev
    /\ DELAY \in Delays
    /\ RETRY_DELAY \in RetryDelays
    /\ OFFSET \in Offsets
    /\ file \in SeqsUpTo(RawRecords, MaxLen)
    /\ offsetUsers = <<>>
    /\ it = 0
    /\ i = 0
    /\ pc = "config"
    /\ migrated = 0
    /\ alreadyExists = 0
    /\ log = <<>>
    /\ createdBy = ""
    /\ elapsed = 0
    /\ reported = <<>>
    /\ uncaught = None
    /\ response = None
    /\ lookedUp = None
    /\ throttles = Zero
    /\ validations = Zero
    /\ lookups = Zero
    /\ creates = Zero
    /\ rateLimited = Zero
    /\ cooldowns = Zero
    /\ RunsInit

(***************************************************************************)
(* The driver.                                                             *)
(***************************************************************************)
\* slip: the exception is swallowed and the loop goes on
Throw_Swallow(e) ==
    /\ pc' = "loop"
    /\ uncaught' = e

\* an exception nothing catches: main() rejects, no .then callback runs
Throw(e) ==
    /\ pc' = "aborted"
    /\ uncaught' = e

\* processUserToClerk / processOrganizationToClerk returns to the loop
Return ==
    /\ pc' = "loop"
    /\ UNCHANGED uncaught

\* slips of the catch block's tests, used to see that the properties below
\* depend on them
Classify_ConflictAsPermanent(error) ==
    IF error.status = "429" THEN "rateLimit" ELSE "permanent"

Classify_ConflictAsRateLimit(error) ==
    IF error.status \in {"422", "429"} THEN "rateLimit" ELSE "permanent"

Classify_ServerErrorAsRateLimit(error) ==
    IF error.status = "422" THEN "conflict"
    ELSE IF error.status \in {"429", "500"} THEN "rateLimit"
    ELSE "permanent"

Classify_GiveUp(error) ==
    IF error.status = "422" THEN "conflict"
    ELSE IF error.status = "429" /\ rateLimited[cur] = 0 THEN "rateLimit"
    ELSE "permanent"

\* slip: a 429 is not retried
Classify_RateLimitAsPermanent(error) ==
    IF error.status = "422" THEN "conflict" ELSE "permanent"

\* the catch block's tests on error.status
Classify(error) ==
    IF error.status = "422" THEN "conflict"
    ELSE IF error.status = "429" THEN "rateLimit"
    ELSE "permanent"

\* the payload { userId: userData._id, ...error }: reading _id of null throws
PayloadThrows(r) == r.shape = "null"
Payload(k, error) == [record |-> k, error |-> error]

\* slip: the file is written, not appended to
appendLog_Overwrite(error, counted) ==
    IF PayloadThrows(userData)
    THEN /\ Throw(TypeError)
         /\ UNCHANGED <<log, alreadyExists>>
    ELSE \E written \in BOOLEAN :
            IF written
            THEN /\ log' = <<Payload(cur, error)>>
                 /\ alreadyExists' = alreadyExists + counted
                 /\ Return
            ELSE /\ Throw([name |-> "SystemError", status |-> NoStatus])
                 /\ UNCHANGED <<log, alreadyExists>>

\* appendLog(payload), then the statements that follow it up to the return;
\* counted is what alreadyExists++ adds on that path
appendLog(error, counted) ==
    IF PayloadThrows(userData)
    THEN /\ Throw(TypeError)
         /\ UNCHANGED <<log, alreadyExists>>
    ELSE \E written \in BOOLEAN :
            IF written
            THEN /\ log' = Append(log, Payload(cur, error))
                 /\ alreadyExists' = alreadyExists + counted
                 /\ Return
            ELSE /\ Throw([name |-> "SystemError", status |-> NoStatus])
                 /\ UNCHANGED <<log, alreadyExists>>

\* the catch block
Catch(error) ==
    CASE Classify(error) = "conflict" ->
            /\ appendLog(error, 1)
            /\ UNCHANGED rateLimited
      [] Classify(error) = "rateLimit" ->
            /\ pc' = "rateLimited"
            /\ rateLimited' = Inc(rateLimited, cur)
            /\ UNCHANGED <<log, alreadyExists, uncaught>>
      [] OTHER ->
            /\ appendLog(error, 0)
            /\ UNCHANGED rateLimited

\* the startup checks on the configuration
CheckConfig ==
    /\ pc = "config"
    /\ IF ConfigThrows(SECRET_KEY, IMPORT_TO_DEV)
       THEN Throw([name |-> "Error", status |-> NoStatus])
       ELSE pc' = "main" /\ UNCHANGED uncaught
    /\ UNCHANGED <<response, lookedUp, env, offsetUsers, it, i, migrated, alreadyExists, log,
                   createdBy, elapsed, reported, hist>>

\* main, up to the loop: read the file, apply the offset
Main ==
    /\ pc = "main"
    /\ offsetUsers' = slice(file, OFFSET)
    /\ i' = 0
    /\ it' = 0
    /\ pc' = "loop"
    /\ UNCHANGED <<response, lookedUp, env, migrated, alreadyExists, log, createdBy, elapsed,
                   reported, uncaught, hist>>

\* slip: the loop steps over a record
LoopHead_Skip ==
    /\ pc = "loop"
    /\ IF it < Len(offsetUsers)
       THEN it' = Min(it + 2, Len(offsetUsers)) /\ pc' = "cooldown"
       ELSE it' = it /\ pc' = "complete"
    /\ UNCHANGED <<response, lookedUp, env, offsetUsers, i, migrated, alreadyExists, log,
                   createdBy, elapsed, reported, uncaught, hist>>

\* the head of the for-of loop: the next record, or the end of main
LoopHead ==
    /\ pc = "loop"
    /\ IF it < Len(offsetUsers)
       THEN it' = it + 1 /\ pc' = "cooldown"
       ELSE it' = it /\ pc' = "complete"
    /\ UNCHANGED <<response, lookedUp, env, offsetUsers, i, migrated, alreadyExists, log,
                   createdBy, elapsed, reported, uncaught, hist>>

\* slip: no delay before the first record
Cooldown_SkipFirst ==
    /\ pc = "cooldown"
    /\ elapsed' = IF i = 0 THEN elapsed ELSE elapsed + DELAY
    /\ i' = i + 1
    /\ throttles' = IF i = 0 THEN throttles ELSE Inc(throttles, cur)
    /\ pc' = "process"
    /\ UNCHANGED <<response, lookedUp, env, offsetUsers, it, migrated, alreadyExists, log,
                   createdBy, reported, uncaught,
                   validations, lookups, creates, rateLimited, cooldowns>>

\* await cooldown(); i++
Cooldown ==
    /\ pc = "cooldown"
    /\ elapsed' = elapsed + DELAY
    /\ i' = i + 1
    /\ throttles' = Inc(throttles, cur)
    /\ pc' = "process"
    /\ UNCHANGED <<response, lookedUp, env, offsetUsers, it, migrated, alreadyExists, log,
                   createdBy, reported, uncaught,
                   validations, lookups, creates, rateLimited, cooldowns>>

\* slip: a failed validation does not throw
Process_NoThrow ==
    /\ pc = "process"
    /\ validations' = Inc(validations, cur)
    /\ pc' = IF entity = "org" THEN "lookup" ELSE "creating"
    /\ UNCHANGED <<log, alreadyExists, uncaught, rateLimited>>
    /\ UNCHANGED <<response, lookedUp, env, offsetUsers, it, i, migrated, createdBy, elapsed,
                   reported, throttles, lookups, creates, cooldowns>>

\* the process function is entered: validation, and its failure
Process ==
    /\ pc = "process"
    /\ validations' = Inc(validations, cur)
    /\ IF safeParse(entity, userData)
       THEN /\ pc' = IF entity = "org" THEN "lookup" ELSE "creating"
            /\ UNCHANGED <<log, alreadyExists, uncaught, rateLimited>>
       ELSE Catch(ZodError)
    /\ UNCHANGED <<response, lookedUp, env, offsetUsers, it, i, migrated, createdBy, elapsed,
                   reported, throttles, lookups, creates, cooldowns>>

\* getUserByEmail: the user found, no user, or an error, which is swallowed
getUserByEmail(outcome) == IF outcome = Found THEN "user_id" ELSE ""

\* slip: the lookup's error is not caught and reaches the catch block of the
\* process function
Lookup_Propagates ==
    /\ pc = "lookup"
    /\ lookups' = Inc(lookups, cur)
    /\ \E outcome \in {Found, Empty} \cup GatewayErrors :
          /\ lookedUp' = outcome
          /\ IF outcome \in GatewayErrors
             THEN /\ Catch(outcome)
                  /\ UNCHANGED createdBy
             ELSE /\ createdBy' = getUserByEmail(outcome)
                  /\ pc' = "creating"
                  /\ UNCHANGED <<log, alreadyExists, uncaught, rateLimited>>
    /\ UNCHANGED <<response, env, offsetUsers, it, i, migrated, elapsed, reported,
                   throttles, validations, creates, cooldowns>>

\* organization path: createOrganization's lookup of the creator
Lookup ==
    /\ pc = "lookup"
    /\ \E outcome \in {Found, Empty} \cup GatewayErrors :
          /\ lookedUp' = outcome
          /\ createdBy' = getUserByEmail(outcome)
    /\ lookups' = Inc(lookups, cur)
    /\ pc' = "creating"
    /\ UNCHANGED <<response, env, offsetUsers, it, i, migrated, alreadyExists, log,
                   elapsed, reported, uncaught,
                   throttles, validations, creates, rateLimited, cooldowns>>

\* what the gateway may answer to the creation call of record k
Responses(k) ==
    {Created} \cup {e \in GatewayErrors : e.status = "429" => rateLimited[k] < MaxRateLimited}

\* the creation call returns: success, or the catch block
Create ==
    /\ pc = "creating"
    /\ creates' = Inc(creates, cur)
    /\ \E r \in Responses(cur) :
          /\ response' = r
          /\ IF r = Created
             THEN /\ migrated' = migrated + 1
                  /\ Return
                  /\ UNCHANGED <<log, alreadyExists, rateLimited>>
             ELSE /\ Catch(r)
                  /\ UNCHANGED migrated
    /\ lookedUp' = None
    /\ UNCHANGED <<env, offsetUsers, it, i, createdBy, elapsed, reported,
                   throttles, validations, lookups, cooldowns>>

\* slip: after the cooldown the record is dropped
RateLimitCooldown_Skip ==
    /\ pc = "rateLimited"
    /\ elapsed' = elapsed + RETRY_DELAY
    /\ cooldowns' = Inc(cooldowns, cur)
    /\ pc' = "loop"
    /\ UNCHANGED <<response, lookedUp, env, offsetUsers, it, i, migrated, alreadyExists, log,
                   createdBy, reported, uncaught,
                   throttles, validations, lookups, creates, rateLimited>>

\* slip: after the cooldown only the creation is attempted again
RateLimitCooldown_ToCreating ==
    /\ pc = "rateLimited"
    /\ elapsed' = elapsed + RETRY_DELAY
    /\ cooldowns' = Inc(cooldowns, cur)
    /\ pc' = IF entity = "org" THEN "lookup" ELSE "creating"
    /\ UNCHANGED <<response, lookedUp, env, offsetUsers, it, i, migrated, alreadyExists, log,
                   createdBy, reported, uncaught,
                   throttles, validations, lookups, creates, rateLimited>>

\* slip: after the rate-limit cooldown the record is taken up from the
\* per-record delay
RateLimitCooldown_Restart ==
    /\ pc = "rateLimited"
    /\ elapsed' = elapsed + RETRY_DELAY
    /\ cooldowns' = Inc(cooldowns, cur)
    /\ pc' = "cooldown"
    /\ UNCHANGED <<response, lookedUp, env, offsetUsers, it, i, migrated, alreadyExists, log,
                   createdBy, reported, uncaught,
                   throttles, validations, lookups, creates, rateLimited>>

\* slip: the retry calls the creation endpoint with the creator looked up
\* for the first attempt
RateLimitCooldown_NoLookup ==
    /\ pc = "rateLimited"
    /\ elapsed' = elapsed + RETRY_DELAY
    /\ cooldowns' = Inc(cooldowns, cur)
    /\ validations' = Inc(validations, cur)
    /\ pc' = "creating"
    /\ UNCHANGED <<response, lookedUp, env, offsetUsers, it, i, migrated, alreadyExists, log,
                   createdBy, reported, uncaught,
                   throttles, lookups, creates, rateLimited>>

\* await rateLimitCooldown(), then the process function calls itself
RateLimitCooldown ==
    /\ pc = "rateLimited"
    /\ elapsed' = elapsed + RETRY_DELAY
    /\ cooldowns' = Inc(cooldowns, cur)
    /\ pc' = "process"
    /\ UNCHANGED <<response, lookedUp, env, offsetUsers, it, i, migrated, alreadyExists, log,
                   createdBy, reported, uncaught,
                   throttles, validations, lookups, creates, rateLimited>>

\* slip: "failed to upload" counts every logged failure
Summary_AllFailures ==
    /\ pc = "complete"
    /\ reported' = <<migrated, Len(log)>>
    /\ pc' = "done"
    /\ UNCHANGED <<response, lookedUp, env, offsetUsers, it, i, migrated, alreadyExists, log,
                   createdBy, elapsed, uncaught, hist>>

\* main().then: the two lines of the summary
Summary ==
    /\ pc = "complete"
    /\ reported' = <<migrated, alreadyExists>>
    /\ pc' = "done"
    /\ UNCHANGED <<response, lookedUp, env, offsetUsers, it, i, migrated, alreadyExists, log,
                   createdBy, elapsed, uncaught, hist>>

Next ==
    \/ CheckConfig
    \/ Main
    \/ LoopHead
    \/ Cooldown
    \/ Process
    \/ Lookup
    \/ Create
    \/ RateLimitCooldown
    \/ Summary

Spec == Init /\ [][Next]_vars

\* the timers fire and the gateway answers: the program keeps taking steps
FairSpec == Spec /\ WF_vars(Next)

TypeOK ==
    /\ pc \in {"config", "main", "loop", "cooldown", "process", "lookup",
               "creating", "rateLimited", "complete", "done", "aborted"}
    /\ it \in 0 .. MaxLen
    /\ migrated \in 0 .. MaxLen
    /\ alreadyExists \in 0 .. MaxLen

(***************************************************************************)
(* What the properties talk about.                                         *)
(***************************************************************************)
\* number of records the offset skips, once main has applied it
Base == Len(file) - Len(offsetUsers)
\* main has read the file and applied the offset
Started == pc \notin {"config", "main"} /\ uncaught.name # "Error"
\* the record the loop is at has reached its final outcome
AtRest == pc \in {"loop", "complete", "done"}
\* the records the loop has left behind, or has finished
Finished == {k \in Indices : Started /\ Base < k /\ (k < cur \/ (k = cur /\ AtRest))}

LogOf(k) == {j \in DOMAIN log : log[j].record = k}
IsConflict(e) == e.status = "422"
IsPermanent(e) == e.status \notin {"422", "429"}
ConflictEntries == {j \in DOMAIN log : IsConflict(log[j].error)}
PermanentEntries == {j \in DOMAIN log : IsPermanent(log[j].error)}

\* a finished record was created: its last creation call is one more than its
\* 429 responses, and nothing was logged for it
WasCreated(k) == creates[k] = rateLimited[k] + 1 /\ LogOf(k) = {}
WasConflict(k) == \E j \in LogOf(k) : IsConflict(log[j].error)
WasPermanent(k) == \E j \in LogOf(k) : IsPermanent(log[j].error)

\* the log append threw: the run ended on the file system's error
LogWriteFailed == pc' = "aborted" /\ uncaught'.name = "SystemError"
CountersUnchanged == migrated' = migrated /\ alreadyExists' = alreadyExists

\* from the loop's head the driver moves on: the next record, or the end
LoopAdvances ==
    \/ it' = it + 1 /\ pc' = "cooldown"
    \/ it' = it /\ it = Len(offsetUsers) /\ pc' = "complete"

\* nothing has been done for record k
Untouched(k) ==
    /\ throttles[k] = 0 /\ validations[k] = 0 /\ lookups[k] = 0
    /\ creates[k] = 0 /\ rateLimited[k] = 0 /\ cooldowns[k] = 0
    /\ LogOf(k) = {}

RECURSIVE SumTo(_, _)
SumTo(f, n) == IF n = 0 THEN 0 ELSE f[n] + SumTo(f, n - 1)
Sum(f) == SumTo(f, MaxLen)

(***************************************************************************)
(* C1: when a run over n records with offset k (0 <= k <= n) completes,    *)
(* migrated + alreadyExists + (log entries for validation failures and     *)
(* for gateway errors other than 422 and 429) = n - k, and every           *)
(* processed record is in exactly one of the three buckets.                *)
(***************************************************************************)
C1_Accounting ==
    (pc = "done" /\ OFFSET \in 0 .. Len(file)) =>
        /\ migrated + alreadyExists + Cardinality(PermanentEntries) = Len(file) - OFFSET
        /\ alreadyExists = Cardinality(ConflictEntries)
        /\ \A k \in (OFFSET + 1) .. Len(file) :
              /\ WasCreated(k) \/ WasConflict(k) \/ WasPermanent(k)
              /\ ~(WasCreated(k) /\ WasConflict(k))
              /\ ~(WasCreated(k) /\ WasPermanent(k))
              /\ ~(WasConflict(k) /\ WasPermanent(k))
        /\ migrated = Cardinality({k \in (OFFSET + 1) .. Len(file) : WasCreated(k)})

C1_Witness ==
    /\ pc = "done"
    /\ OFFSET = 0
    /\ Len(file) = 2
    /\ alreadyExists = 1
    /\ Cardinality(PermanentEntries) = 1

(***************************************************************************)
(* C2: a record whose creation call returns 429 is retried with the same   *)
(* record after the cooldown wait, however many 429 responses it gets;     *)
(* migrated is incremented for it once, only by the attempt that succeeds, *)
(* and the 429 attempts add nothing to any counter.                        *)
(***************************************************************************)
C2_RateLimitedStep ==
    (pc = "creating" /\ response'.status = "429") =>
        /\ pc' = "rateLimited"
        /\ it' = it /\ offsetUsers' = offsetUsers
        /\ CountersUnchanged /\ log' = log

C2_CooldownStep ==
    pc = "rateLimited" =>
        /\ pc' = "process"
        /\ it' = it /\ offsetUsers' = offsetUsers
        /\ elapsed' = elapsed + RETRY_DELAY
        /\ CountersUnchanged /\ log' = log

C2_MigratedStep ==
    migrated' # migrated =>
        /\ migrated' = migrated + 1
        /\ pc = "creating" /\ response' = Created /\ pc' = "loop"

C2_CountedOnce ==
    /\ migrated = Cardinality({k \in Finished : WasCreated(k)})
    /\ \A k \in Indices : creates[k] <= rateLimited[k] + 1

\* C2: every 429 is retried on the same record after the cooldown, and
\* migrated counts the record once, on the attempt that succeeds
C2_Retry ==
    /\ []C2_CountedOnce
    /\ [][C2_RateLimitedStep /\ C2_CooldownStep /\ C2_MigratedStep]_vars

C2_Witness ==
    /\ pc = "loop"
    /\ it = 1
    /\ rateLimited[cur] = MaxRateLimited
    /\ creates[cur] = MaxRateLimited + 1
    /\ response = Created
    /\ migrated = 1

(***************************************************************************)
(* C3: a record whose creation call returns 422 is never retried: no       *)
(* further creation call is made for it, alreadyExists is incremented      *)
(* once, one log entry is appended, migrated is unchanged, and the driver  *)
(* advances to the next record.  (When the append itself fails the run     *)
(* ends there: C7.)                                                        *)
(***************************************************************************)
C3_ConflictStep ==
    (pc = "creating" /\ response'.status = "422") =>
        \/ /\ pc' = "loop"
           /\ it' = it
           /\ alreadyExists' = alreadyExists + 1
           /\ migrated' = migrated
           /\ log' = Append(log, Payload(cur, response'))
           /\ rateLimited' = rateLimited
        \/ LogWriteFailed /\ CountersUnchanged /\ log' = log

\* after the conflict the loop's head moves on: the next record, or the end
C3_AdvanceStep ==
    (pc = "loop" /\ it > 0 /\ WasConflict(cur)) => LoopAdvances

C3_ConflictIsFinal ==
    \A k \in Indices :
        WasConflict(k) =>
            /\ Cardinality(LogOf(k)) = 1
            /\ creates[k] = rateLimited[k] + 1
            /\ cooldowns[k] = rateLimited[k]
            /\ k \in Finished

\* C3: a 422 is final for its record: counted once, logged once, not retried
C3_Conflict ==
    /\ []C3_ConflictIsFinal
    /\ [][C3_ConflictStep /\ C3_AdvanceStep]_vars

C3_Witness ==
    /\ pc = "cooldown"
    /\ it = 2
    /\ WasConflict(cur - 1)
    /\ alreadyExists = 1
    /\ migrated = 0
    /\ Len(log) = 1

(***************************************************************************)
(* C4: a record that fails validation never reaches the creation call, is  *)
(* never retried and changes neither counter; a record (a JSON object)     *)
(* that fails validation gets one log entry and the run continues with     *)
(* the next record.  (When the append itself fails the run ends: C7.)      *)
(***************************************************************************)
C4_InvalidStep ==
    (pc = "process" /\ ~safeParse(entity, userData)) =>
        /\ pc' \notin {"lookup", "creating", "rateLimited", "process"}
        /\ creates' = creates /\ lookups' = lookups /\ response' = response
        /\ rateLimited' = rateLimited
        /\ CountersUnchanged
        /\ it' = it
        /\ userData.shape = "object" =>
              \/ pc' = "loop" /\ log' = Append(log, Payload(cur, ZodError))
              \/ LogWriteFailed /\ log' = log

C4_AdvanceStep ==
    (pc = "loop" /\ it > 0 /\ ~safeParse(entity, userData)) => LoopAdvances

C4_InvalidIsFinal ==
    \A k \in Indices :
        (Started /\ Base < k /\ k <= Len(file) /\ ~safeParse(entity, file[k])) =>
            /\ creates[k] = 0 /\ lookups[k] = 0
            /\ rateLimited[k] = 0 /\ cooldowns[k] = 0
            /\ validations[k] <= 1
            /\ Cardinality(LogOf(k)) <= 1
            /\ k \in Finished =>
                  /\ Cardinality(LogOf(k)) = 1
                  /\ \A j \in LogOf(k) : log[j].error = ZodError

\* C4: a validation failure is final for its record and never reaches the
\* gateway
C4_Validation ==
    /\ []C4_InvalidIsFinal
    /\ [][C4_InvalidStep /\ C4_AdvanceStep]_vars

C4_Witness ==
    /\ pc = "process"
    /\ it = 2
    /\ ~safeParse(entity, file[cur - 1])
    /\ Cardinality(LogOf(cur - 1)) = 1
    /\ Len(log) = 1
    /\ Sum(creates) = 0
    /\ migrated = 0 /\ alreadyExists = 0

(***************************************************************************)
(* C5: a creation call that fails with another status than 422 or 429, or  *)
(* with an error that has no status, gets one log entry, is not retried,   *)
(* leaves both counters unchanged, and the driver advances to the next     *)
(* record.  (When the append itself fails the run ends: C7.)               *)
(***************************************************************************)
IsOtherError(e) == e \in GatewayErrors /\ IsPermanent(e)

C5_OtherErrorStep ==
    (pc = "creating" /\ IsOtherError(response')) =>
        \/ /\ pc' = "loop"
           /\ it' = it
           /\ log' = Append(log, Payload(cur, response'))
           /\ CountersUnchanged
           /\ rateLimited' = rateLimited
        \/ LogWriteFailed /\ CountersUnchanged /\ log' = log

C5_AdvanceStep ==
    (pc = "loop" /\ it > 0 /\ \E j \in LogOf(cur) : IsOtherError(log[j].error))
        => LoopAdvances

C5_OtherErrorIsFinal ==
    \A k \in Indices :
        (\E j \in LogOf(k) : IsOtherError(log[j].error)) =>
            /\ Cardinality(LogOf(k)) = 1
            /\ creates[k] = rateLimited[k] + 1
            /\ cooldowns[k] = rateLimited[k]
            /\ k \in Finished

\* C5: any other creation error is final for its record: logged once, not
\* counted, not retried
C5_OtherError ==
    /\ []C5_OtherErrorIsFinal
    /\ [][C5_OtherErrorStep /\ C5_AdvanceStep]_vars

C5_Witness ==
    /\ pc = "done"
    /\ Len(log) = 2
    /\ log[1].error.status = "500"
    /\ log[2].error.name = "FetchError"
    /\ creates[1] = 1 /\ creates[2] = 1
    /\ migrated = 0 /\ alreadyExists = 0

(***************************************************************************)
(* C6: records are processed in the order of the input and one at a time:  *)
(* record i+1 does not enter its throttle delay, validation or creation    *)
(* before record i has its final outcome, whatever the number of 429       *)
(* retries of record i; no record is skipped, none is processed twice.     *)
(***************************************************************************)
C6_OneAtATime ==
    Started =>
        \A k \in Indices :
            /\ (k <= Base \/ k > cur) => Untouched(k)
            /\ (Base < k /\ k < cur) =>
                  /\ throttles[k] = 1
                  /\ validations[k] = rateLimited[k] + 1
                  /\ cooldowns[k] = rateLimited[k]
                  /\ WasCreated(k) \/ Cardinality(LogOf(k)) = 1
            /\ (k = cur /\ it > 0) =>
                  throttles[k] = IF pc = "cooldown" THEN 0 ELSE 1

C6_LogInOrder ==
    \A a, b \in DOMAIN log : a < b => log[a].record < log[b].record

C6_NextRecordStep ==
    /\ it' # it => pc = "loop" /\ it' = it + 1 /\ pc' = "cooldown"
    /\ pc' = "cooldown" => pc = "loop"
    /\ (pc' = "loop" /\ pc = "creating") => response'.status # "429"
    /\ pc' = "loop" => pc \in {"main", "process", "creating"}
    /\ offsetUsers' # offsetUsers => pc = "main"

\* C6: one record at a time, in the order of the input
C6_Sequential ==
    /\ [](C6_OneAtATime /\ C6_LogInOrder)
    /\ [][C6_NextRecordStep]_vars

C6_Witness ==
    /\ pc = "creating"
    /\ OFFSET = 0 /\ it = 2
    /\ rateLimited[1] = MaxRateLimited
    /\ rateLimited[2] = 1
    /\ migrated = 1

(***************************************************************************)
(* C7: when the append to the failure log fails, for a 422, a validation   *)
(* failure or another gateway error, nothing catches it: the run aborts,   *)
(* no later record is validated or sent to the gateway, and no summary is  *)
(* reported.                                                               *)
(***************************************************************************)
C7_Aborted ==
    /\ uncaught.name = "SystemError" => pc = "aborted"
    /\ pc = "aborted" =>
          /\ reported = <<>>
          /\ \A k \in Indices : (Started /\ k > cur) => Untouched(k)

C7_AppendFailsStep ==
    (uncaught = None /\ uncaught'.name = "SystemError") =>
        /\ pc \in {"process", "creating"}
        /\ pc' = "aborted"
        /\ log' = log /\ CountersUnchanged
        /\ \/ pc = "process" /\ ~safeParse(entity, userData)
           \/ pc = "creating" /\ response'.status = "422"
           \/ pc = "creating" /\ IsOtherError(response')

\* C7: a failed append to the log ends the run, without summary
C7_LogWriteFatal ==
    /\ []C7_Aborted
    /\ [][C7_AppendFailsStep /\ pc # "aborted"]_vars

C7_Witness ==
    /\ pc = "aborted"
    /\ uncaught.name = "SystemError"
    /\ response.status = "422"
    /\ it = 1 /\ Len(offsetUsers) = 2
    /\ alreadyExists = 0 /\ log = <<>>

(***************************************************************************)
(* C8: offset k on an input of n records (0 <= k) processes the n-k        *)
(* records from index k on, in their order; an offset >= n processes no    *)
(* record, makes no gateway call, writes no log entry, and the summary     *)
(* reports zero for both counts.                                           *)
(***************************************************************************)
C8_Offset ==
    (Started /\ OFFSET >= 0) =>
        /\ offsetUsers = SubSeq(file, OFFSET + 1, Len(file))
        /\ \A k \in Indices : k <= OFFSET => Untouched(k)
        /\ pc \in {"complete", "done"} =>
              /\ i = Max(Len(file) - OFFSET, 0)
              /\ \A k \in 1 .. Len(file) :
                    /\ throttles[k] = IF k > OFFSET THEN 1 ELSE 0
                    /\ k > OFFSET => validations[k] >= 1
        /\ OFFSET >= Len(file) =>
              /\ pc \in {"loop", "complete", "done"}
              /\ \A k \in Indices : Untouched(k)
              /\ log = <<>>
              /\ response = None
              /\ pc = "done" => reported = <<0, 0>>

C8_Witness ==
    /\ pc = "done"
    /\ Len(file) = 2 /\ OFFSET = 1
    /\ i = 1
    /\ throttles[2] = 1 /\ creates[2] = 1
    /\ Untouched(1)

(***************************************************************************)
(* C9: one throttle delay is taken before each processed record, the       *)
(* first one included, before its validation and its first creation        *)
(* attempt; a 429 retry takes the cooldown wait and no throttle delay.  A  *)
(* completed run over N records has taken N throttle delays: at least      *)
(* N x DELAY has elapsed.                                                  *)
(***************************************************************************)
C9_OnePerRecord ==
    /\ \A k \in Indices :
          /\ throttles[k] <= 1
          /\ (validations[k] >= 1 \/ lookups[k] >= 1 \/ creates[k] >= 1) => throttles[k] = 1
    /\ elapsed = Sum(throttles) * DELAY + Sum(cooldowns) * RETRY_DELAY
    /\ pc \in {"complete", "done"} =>
          /\ Sum(throttles) = Len(offsetUsers)
          /\ elapsed >= Len(offsetUsers) * DELAY

C9_TimerStep ==
    /\ pc = "rateLimited" => throttles' = throttles /\ elapsed' = elapsed + RETRY_DELAY
    /\ throttles' # throttles =>
          /\ pc = "cooldown"
          /\ elapsed' = elapsed + DELAY
          /\ validations[cur] = 0 /\ creates[cur] = 0
    /\ (pc = "cooldown" /\ pc' # pc) => throttles' = Inc(throttles, cur)

\* C9: exactly one throttle delay per processed record, none for a retry
C9_Throttle ==
    /\ []C9_OnePerRecord
    /\ [][C9_TimerStep]_vars

C9_Witness ==
    /\ pc = "done"
    /\ Len(offsetUsers) = 2
    /\ DELAY = 1000
    /\ Sum(cooldowns) = 1
    /\ elapsed = 2 * DELAY + RETRY_DELAY

(***************************************************************************)
(* C10: a 429 never leaves the per-record operation and never ends the     *)
(* run.  With finitely many 429 responses per record the run goes through  *)
(* every record and reports its summary (or ends on one of the fatal       *)
(* errors: configuration, log write, a null element); on a 429 the driver  *)
(* stays on the record: it does not give up, log, or advance.              *)
(***************************************************************************)
Ended == pc \in {"done", "aborted"}

C10_NeverEscapes ==
    /\ uncaught.status # "429"
    /\ pc = "aborted" => uncaught.name \in {"Error", "SystemError", "TypeError"}
    /\ pc = "done" =>
          /\ it = Len(offsetUsers)
          /\ reported = <<migrated, alreadyExists>>
          /\ \A k \in Indices : (Base < k /\ k <= Len(file)) => k \in Finished

C10_StaysStep ==
    /\ (pc = "creating" /\ response'.status = "429") =>
          /\ pc' = "rateLimited"
          /\ uncaught' = None
          /\ it' = it /\ log' = log
          /\ rateLimited' = Inc(rateLimited, cur)
    /\ pc = "rateLimited" => pc' = "process" /\ it' = it /\ log' = log
    /\ (pc = "process" /\ rateLimited[cur] > 0) =>
          pc' \in {"lookup", "creating"} /\ it' = it /\ log' = log

\* C10: the run ends, never on a 429, and a 429 keeps the driver on its record
C10_RateLimitNeverFatal ==
    /\ <>Ended
    /\ []C10_NeverEscapes
    /\ [][C10_StaysStep]_vars

C10_Witness ==
    /\ pc = "done"
    /\ Len(file) = 2 /\ OFFSET = 0
    /\ rateLimited[1] = MaxRateLimited
    /\ rateLimited[2] = MaxRateLimited
    /\ reported = <<2, 0>>

(***************************************************************************)
(* C11: the failure log is append-only, with one entry per conflict or     *)
(* permanent failure: every step leaves the log as it is or appends one    *)
(* entry to it; its length is alreadyExists plus the number of finished    *)
(* records that ended in a validation failure or another error than 429;   *)
(* a created record, and a record being retried after a 429, has none.     *)
(***************************************************************************)
\* finished records that did not pass validation
FinishedInvalid == {k \in Finished : ~safeParse(entity, file[k])}
\* finished records whose creation ended neither in success nor in a 422
FinishedOtherError ==
    (Cardinality(Finished) - Cardinality(FinishedInvalid)) - (migrated + alreadyExists)

C11_OneEntryEach ==
    /\ Len(log) = alreadyExists + Cardinality(FinishedInvalid) + FinishedOtherError
    /\ alreadyExists = Cardinality(ConflictEntries)
    /\ \A j \in DOMAIN log : log[j].error.status # "429" /\ log[j].error # Created
    /\ \A k \in Indices :
          /\ Cardinality(LogOf(k)) <= 1
          /\ k \notin Finished => LogOf(k) = {}

C11_AppendStep ==
    /\ \/ log' = log
       \/ /\ Len(log') = Len(log) + 1
          /\ SubSeq(log', 1, Len(log)) = log
          /\ log'[Len(log')].record = cur
          /\ pc' = "loop"
          /\ \/ pc = "process" /\ log'[Len(log')].error = ZodError
             \/ /\ pc = "creating"
                /\ log'[Len(log')].error = response'
                /\ response'.status \notin {"429"}
                /\ response' # Created
    /\ (pc = "creating" /\ (response' = Created \/ response'.status = "429")) => log' = log
    /\ pc \in {"rateLimited", "lookup", "cooldown", "loop", "complete"} => log' = log

\* C11: the log only grows, by one entry per conflict or permanent failure
C11_AppendOnly ==
    /\ []C11_OneEntryEach
    /\ [][C11_AppendStep]_vars

C11_Witness ==
    /\ pc = "loop"
    /\ Len(log) = 2
    /\ IsConflict(log[1].error)
    /\ log[2].error = ZodError
    /\ rateLimited[1] > 0

(***************************************************************************)
(* C12: the configuration is checked before any record is processed: with  *)
(* no credential, or with a credential that is not a live one while the    *)
(* import-to-dev flag is "false" (its value when unset), the run aborts    *)
(* with no record read, no delay, no gateway call and no log entry.        *)
(***************************************************************************)
UnsafeConfig ==
    \/ SECRET_KEY = "unset"
    \/ SECRET_KEY = "sk_test_x" /\ IMPORT_TO_DEV = "false"

C12_StartupPrecondition ==
    UnsafeConfig =>
        /\ pc \in {"config", "aborted"}
        /\ pc = "aborted" => uncaught.name = "Error"
        /\ offsetUsers = <<>> /\ it = 0 /\ i = 0
        /\ elapsed = 0
        /\ log = <<>>
        /\ response = None
        /\ \A k \in Indices : Untouched(k)
        /\ migrated = 0 /\ alreadyExists = 0
        /\ reported = <<>>

C12_Witness ==
    /\ pc = "aborted"
    /\ SECRET_KEY = "sk_test_x"
    /\ IMPORT_TO_DEV = "false"
    /\ Len(file) = 2
    /\ DELAY = 1000

(***************************************************************************)
(* C13: the summary is reported only after the last record has its final   *)
(* outcome; it gives two numbers, the migrated count and the count         *)
(* labelled "failed to upload", which is the number of records that ended  *)
(* in a 422; records that ended in a validation failure or another         *)
(* gateway error are in neither number.                                    *)
(***************************************************************************)
C13_Reported ==
    /\ pc = "done" <=> reported # <<>>
    /\ reported # <<>> =>
          /\ it = Len(offsetUsers)
          /\ Finished = {k \in Indices : Base < k /\ k <= Len(file)}
          /\ Len(reported) = 2
          /\ reported[1] = migrated
          /\ reported[1] = Cardinality({k \in Finished : WasCreated(k)})
          /\ reported[2] = alreadyExists
          /\ reported[2] = Cardinality({k \in Finished : WasConflict(k)})
          /\ reported[1] + reported[2]
                = Cardinality(Finished) - Cardinality({k \in Finished : WasPermanent(k)})

C13_ReportStep ==
    reported' # reported => pc = "complete" /\ pc' = "done" /\ reported = <<>>

\* C13: the summary comes last and reports migrated and the number of 422s
C13_Summary ==
    /\ []C13_Reported
    /\ [][C13_ReportStep]_vars

C13_Witness ==
    /\ reported = <<0, 1>>
    /\ Len(log) = 2
    /\ \E k \in Finished : WasPermanent(k)

(***************************************************************************)
(* The example run: three records, the second of which fails validation;   *)
(* the gateway creates the first, and answers 429 and then success to the  *)
(* third.                                                                  *)
(***************************************************************************)
ExampleFile == <<Good, NoId, Good>>
ExampleZero == [k \in 1 .. Len(ExampleFile) |-> 0]

\* the gateway's answer to the attempt-th creation call of record k
ExampleScript(k, attempt) ==
    IF k = 3 /\ attempt = 1
    THEN [name |-> "ClerkAPIResponseError", status |-> "429"]
    ELSE Created

ExampleInit ==
    /\ entity \in Entities
    /\ SECRET_KEY \in SecretKeys
    /\ IMPORT_TO_DEV \in ImportToDev
    /\ DELAY \in Delays
    /\ RETRY_DELAY \in RetryDelays
    /\ OFFSET = 0
    /\ file = ExampleFile
    /\ offsetUsers = <<>>
    /\ it = 0
    /\ i = 0
    /\ pc = "config"
    /\ migrated = 0
    /\ alreadyExists = 0
    /\ log = <<>>
    /\ createdBy = ""
    /\ elapsed = 0
    /\ reported = <<>>
    /\ uncaught = None
    /\ response = None
    /\ lookedUp = None
    /\ throttles = ExampleZero
    /\ validations = ExampleZero
    /\ lookups = ExampleZero
    /\ creates = ExampleZero
    /\ rateLimited = ExampleZero
    /\ cooldowns = ExampleZero
    /\ RunsInit

\* the gateway follows the script
ExampleStep ==
    pc = "creating" => response' = ExampleScript(cur, creates[cur] + 1)

\* the program's steps, the creation call answered by the script
ExampleCreate == Create /\ ExampleStep

ExampleNext ==
    \/ CheckConfig
    \/ Main
    \/ LoopHead
    \/ Cooldown
    \/ Process
    \/ Lookup
    \/ ExampleCreate
    \/ RateLimitCooldown
    \/ Summary

ExampleSpec == ExampleInit /\ [][ExampleNext]_vars

(***************************************************************************)
(* C14: in the example run, the run ends with migrated = 2,                *)
(* alreadyExists = 0 and one log entry, for record 2; the creation call    *)
(* is made twice for record 3, once for record 1, never for record 2.      *)
(***************************************************************************)
C14_Example ==
    pc = "done" =>
        /\ migrated = 2
        /\ alreadyExists = 0
        /\ Len(log) = 1
        /\ log[1] = Payload(2, ZodError)
        /\ creates = <<1, 0, 2>>
        /\ rateLimited = <<0, 0, 1>>
        /\ reported = <<2, 0>>

C14_Witness ==
    /\ pc = "done"
    /\ file = ExampleFile
    /\ creates[3] = 2
    /\ validations[2] = 1

(***************************************************************************)
(* C15: nothing below record granularity escapes: for every element of     *)
(* the input array that fails validation, a null included, the failure is  *)
(* logged as a permanent failure and the run continues with the next       *)
(* record (a failed log append apart, which is fatal).                     *)
(***************************************************************************)
C15_InvalidStep ==
    (pc = "process" /\ ~safeParse(entity, userData)) =>
        \/ /\ pc' = "loop"
           /\ log' = Append(log, Payload(cur, ZodError))
           /\ uncaught' = None
        \/ LogWriteFailed

C15_NothingEscapes ==
    /\ [](uncaught.name # "TypeError")
    /\ [][C15_InvalidStep]_vars

(***************************************************************************)
(* C16, as claimed: after a 429 and the cooldown wait the driver goes      *)
(* back to the creation step of the same record, so that a record is       *)
(* validated exactly once, however many times its creation is retried.     *)
(***************************************************************************)
C16_ValidatedOnce ==
    \A k \in Indices : validations[k] <= 1

(***************************************************************************)
(* C16, amended: after a 429 and the cooldown wait the driver enters the   *)
(* per-record operation again for the same record: the record is           *)
(* validated again, with the same result, before its creation is           *)
(* re-attempted; a record is validated once per creation attempt, that is  *)
(* once more than it was rate-limited.                                     *)
(***************************************************************************)
C16_OncePerAttempt ==
    \A k \in Indices :
        /\ validations[k] >= 1 =>
              validations[k] = IF k = cur /\ pc = "process"
                               THEN cooldowns[k] ELSE cooldowns[k] + 1
        /\ creates[k] <= validations[k]
        /\ (k \in Finished /\ safeParse(entity, file[k])) =>
              /\ validations[k] = creates[k]
              /\ validations[k] = rateLimited[k] + 1

C16_RetryStep ==
    /\ pc = "rateLimited" =>
          /\ pc' = "process"
          /\ it' = it /\ offsetUsers' = offsetUsers
          /\ validations' = validations
    /\ (pc = "process" /\ rateLimited[cur] > 0) =>
          /\ validations' = Inc(validations, cur)
          /\ safeParse(entity, userData)
          /\ pc' = IF entity = "org" THEN "lookup" ELSE "creating"
          /\ it' = it

C16_Revalidated ==
    /\ []C16_OncePerAttempt
    /\ [][C16_RetryStep]_vars

C16_Witness ==
    /\ pc = "creating"
    /\ rateLimited[cur] = MaxRateLimited
    /\ validations[cur] = MaxRateLimited + 1
    /\ creates[cur] = MaxRateLimited

(***************************************************************************)
(* C17: on the organization path the lookup of the creator by email never  *)
(* propagates an error: whatever it raises, a 422 or a 429 included, the   *)
(* result is "not found", the creation call is still made for the record,  *)
(* with an unset creator, and the lookup's error causes no retry, no       *)
(* cooldown, no log entry and no change of a counter.                      *)
(***************************************************************************)
C17_LookupStep ==
    pc = "lookup" =>
        /\ pc' = "creating"
        /\ it' = it
        /\ uncaught' = uncaught
        /\ log' = log
        /\ CountersUnchanged
        /\ rateLimited' = rateLimited /\ cooldowns' = cooldowns
        /\ elapsed' = elapsed
        /\ lookedUp' \in GatewayErrors \cup {Empty} => createdBy' = ""
        /\ lookedUp' = Found => createdBy' = "user_id"

\* the creation call is made with what the lookup gave
C17_CreateStep ==
    (pc = "creating" /\ entity = "org") =>
        /\ creates' = Inc(creates, cur)
        /\ createdBy' = createdBy

C17_CreationPending ==
    /\ pc = "lookup" => entity = "org" /\ uncaught = None
    /\ (pc = "creating" /\ entity = "org") =>
          /\ lookedUp \in {Found, Empty} \cup GatewayErrors
          /\ lookedUp # Found => createdBy = ""
          /\ lookups[cur] = creates[cur] + 1

C17_LookupNeverThrows ==
    /\ []C17_CreationPending
    /\ [][C17_LookupStep /\ C17_CreateStep]_vars

C17_Witness ==
    /\ pc = "creating"
    /\ entity = "org"
    /\ lookedUp.status = "429"
    /\ createdBy = ""
    /\ lookups[cur] = 1 /\ creates[cur] = 0
    /\ Sum(cooldowns) = 0
    /\ log = <<>>

(***************************************************************************)
(* Two runs of the program on one machine.  Of a run only what decides     *)
(* the file it writes is kept: the time it starts at and its appends.      *)
(***************************************************************************)
\* how far the clock moves between two events, ms
Ticks == {400, 700}

driver == <<config, offsetUsers, it, i, pc, migrated, alreadyExists, log, createdBy,
            elapsed, reported, uncaught, response, lookedUp, hist>>

\* the driver's own state is left as the program starts with
DriverIdle ==
    /\ entity = "user"
    /\ SECRET_KEY = "sk_live_x"
    /\ IMPORT_TO_DEV = "false"
    /\ DELAY = 1000
    /\ RETRY_DELAY = 10000
    /\ OFFSET = 0
    /\ file = <<>>
    /\ offsetUsers = <<>>
    /\ it = 0
    /\ i = 0
    /\ pc = "config"
    /\ migrated = 0
    /\ alreadyExists = 0
    /\ log = <<>>
    /\ createdBy = ""
    /\ elapsed = 0
    /\ reported = <<>>
    /\ uncaught = None
    /\ response = None
    /\ lookedUp = None
    /\ throttles = Zero
    /\ validations = Zero
    /\ lookups = Zero
    /\ creates = Zero
    /\ rateLimited = Zero
    /\ cooldowns = Zero

TwoRunsInit == DriverIdle /\ RunsInit

\* time passes
Tick ==
    /\ \E d \in Ticks :
          /\ clock + d <= MaxClock
          /\ clock' = clock + d
    /\ UNCHANGED <<now, alive, disk, driver>>

\* a run starts: the module is loaded and the constant now is set
StartRun(r) ==
    /\ alive[r] = "idle"
    /\ now' = [now EXCEPT ![r] = Truncate(clock)]
    /\ alive' = [alive EXCEPT ![r] = "running"]
    /\ UNCHANGED <<clock, disk, driver>>

\* the entries of run r in the file named n
EntriesOf(r, n) == {j \in DOMAIN disk[n] : disk[n][j] = r}

\* appendLog of a run: one entry appended to ./migration-log-${now}.json
AppendRun(r) ==
    /\ alive[r] = "running"
    /\ Cardinality(EntriesOf(r, now[r])) < MaxAppends
    /\ disk' = [disk EXCEPT ![now[r]] = Append(@, r)]
    /\ UNCHANGED <<clock, now, alive, driver>>

\* the run ends
ExitRun(r) ==
    /\ alive[r] = "running"
    /\ alive' = [alive EXCEPT ![r] = "exited"]
    /\ UNCHANGED <<clock, now, disk, driver>>

TwoRunsNext ==
    \/ Tick
    \/ \E r \in Runs : StartRun(r)
    \/ \E r \in Runs : AppendRun(r)
    \/ \E r \in Runs : ExitRun(r)

TwoRunsSpec == TwoRunsInit /\ [][TwoRunsNext]_vars

(***************************************************************************)
(* C18: the log file is owned by one run: two runs whose lifetimes         *)
(* overlap append to distinct files, the file being named after the time   *)
(* the run started at, and no log file holds entries of two runs.          *)
(***************************************************************************)
C18_ExclusiveLogFile ==
    /\ (alive[1] = "running" /\ alive[2] = "running") => now[1] # now[2]
    /\ \A n \in DOMAIN disk :
          \A a, b \in DOMAIN disk[n] : disk[n][a] = disk[n][b]

(***************************************************************************)
(* C19: a 429 changes nothing observable.  From the 429 of a record to the *)
(* next creation attempt for it, migrated, alreadyExists, the failure log  *)
(* and the position in the input are unchanged, and the only wait is one   *)
(* rate-limit cooldown: the per-record delay is not repeated.              *)
(***************************************************************************)
\* the record at hand was answered 429 and its next attempt is not yet made
AwaitingRetry ==
    /\ pc \in {"rateLimited", "process", "lookup"}
    /\ rateLimited[cur] > 0
    /\ creates[cur] = rateLimited[cur]

\* the attempt that is answered 429
C19_RateLimitedStep ==
    (pc = "creating" /\ response'.status = "429") =>
        /\ pc' = "rateLimited"
        /\ rateLimited' = Inc(rateLimited, cur)
        /\ UNCHANGED <<migrated, alreadyExists, log, it, i, offsetUsers, elapsed,
                       reported, uncaught, throttles, cooldowns>>

\* the steps up to the next attempt
C19_FrameStep ==
    AwaitingRetry =>
        /\ UNCHANGED <<migrated, alreadyExists, log, it, i, offsetUsers,
                       reported, uncaught, throttles, creates, rateLimited>>
        /\ elapsed' = IF pc = "rateLimited" THEN elapsed + RETRY_DELAY ELSE elapsed
        /\ cooldowns' = IF pc = "rateLimited" THEN Inc(cooldowns, cur) ELSE cooldowns
        /\ pc' = CASE pc = "rateLimited" -> "process"
                   [] pc = "process" -> IF entity = "org" THEN "lookup" ELSE "creating"
                   [] pc = "lookup" -> "creating"

\* one cooldown per 429, and nothing of the record logged or counted so far
C19_OneCooldown ==
    (pc \in {"rateLimited", "process", "lookup", "creating"} /\ rateLimited[cur] > 0) =>
        /\ cooldowns[cur] = IF pc = "rateLimited"
                            THEN rateLimited[cur] - 1 ELSE rateLimited[cur]
        /\ throttles[cur] = 1
        /\ LogOf(cur) = {}
        /\ uncaught = None

C19_RateLimitFrame ==
    /\ []C19_OneCooldown
    /\ [][C19_RateLimitedStep /\ C19_FrameStep]_vars

\* the second record, about to be attempted again after a 429 and its
\* cooldown, the first record migrated and nothing logged
C19_Witness ==
    /\ pc = "creating"
    /\ it = 2
    /\ rateLimited[cur] = 1 /\ creates[cur] = 1 /\ cooldowns[cur] = 1
    /\ response.status = "429"
    /\ migrated = 1 /\ alreadyExists = 0 /\ log = <<>>
    /\ elapsed = (2 * DELAY) + RETRY_DELAY

(***************************************************************************)
(* C20: on the organization path every creation attempt, the first one     *)
(* and each retry after a 429, is preceded by exactly one lookup of the    *)
(* creator by email for the same record: for every record the number of    *)
(* lookups equals the number of creation calls, and a record that fails    *)
(* validation causes no lookup.                                            *)
(***************************************************************************)
\* the lookup made for the attempt that is about to be made
Pending(k) == IF pc = "creating" /\ it > 0 /\ k = cur THEN 1 ELSE 0

C20_LookupsMatch ==
    /\ entity = "org" => \A k \in Indices : lookups[k] = creates[k] + Pending(k)
    /\ entity = "user" => lookups = Zero
    /\ \A k \in DOMAIN file : ~safeParse(entity, file[k]) => lookups[k] = 0

C20_Step ==
    /\ (pc = "process" /\ entity = "org") =>
          /\ lookups' = lookups /\ creates' = creates
          /\ pc' = "lookup" <=> safeParse(entity, userData)
          /\ pc' # "creating"
    /\ pc = "lookup" =>
          /\ lookups' = Inc(lookups, cur) /\ creates' = creates
          /\ pc' = "creating" /\ it' = it
    /\ (pc = "creating" /\ entity = "org") =>
          /\ creates' = Inc(creates, cur) /\ lookups' = lookups
          /\ lookups[cur] = creates'[cur]
    /\ pc \notin {"lookup", "creating"} => (lookups' = lookups /\ creates' = creates)

C20_LookupPerAttempt ==
    /\ []C20_LookupsMatch
    /\ [][C20_Step]_vars

\* an organization rate-limited as often as the model allows and then
\* created, followed by a record that fails validation
C20_Witness ==
    /\ pc = "done"
    /\ entity = "org"
    /\ Len(file) = 2 /\ offsetUsers = file
    /\ ~safeParse(entity, file[2])
    /\ rateLimited[1] = MaxRateLimited
    /\ lookups[1] = MaxRateLimited + 1 /\ creates[1] = MaxRateLimited + 1
    /\ lookups[2] = 0 /\ creates[2] = 0
    /\ migrated = 1

=============================================================================
